---- MODULE Spec2Model ----
(***************************************************************************)
(* Model of pkg/driver/device_manager_redis.go: the DeviceManagerRedis     *)
(* struct (its three cache maps, lastUpdate and cacheTimeout), the Redis   *)
(* hashes and streams it reads and writes, and its public operations.      *)
(* A handler is one action; a store command that fails is an input of the  *)
(* handler (the index of the failing command, 0 for none).                 *)
(***************************************************************************)
EXTENDS Integers, Sequences, FiniteSets, TLC

\* ---------------------------------------------------------------- bounds
\* number of UUIDs uuid.NewV4 hands out
MaxUUID == 2
\* number of telemetry messages written
MaxMessages == 2
\* seconds the wall clock advances
MaxTicks == 1
\* largest value given to SetCacheTimeout
MaxTimeout == 1

\* ------------------------------------------------------------- constants
onboardCertsHash == "ONBOARD_CERTS"
onboardSerialsHash == "ONBOARD_SERIALS"
deviceSerialsHash == "DEVICE_SERIALS"
deviceOnboardCertsHash == "DEVICE_ONBOARD_CERTS"
deviceCertsHash == "DEVICE_CERTS"
deviceConfigsHash == "DEVICE_CONFIGS"
deviceLogsStream == "LOGS_EVE_"
deviceInfoSteram == "INFO_EVE_"
deviceMetricsStream == "METRICS_EVE_"

HashNames ==
  {onboardCertsHash, onboardSerialsHash, deviceSerialsHash,
   deviceOnboardCertsHash, deviceCertsHash, deviceConfigsHash}

\* the nil *x509.Certificate
NIL == [Raw |-> "nil", CN |-> "nil"]
\* the wildcard serial of checkValidOnboardSerial
Wildcard == "*"

\* ------------------------------------------------------------ value sets
UUIDs == 1 .. MaxUUID
\* uuid.UUID.String and uuid.FromString
String(u) == <<"u1", "u2", "u3", "u4", "u5">>[u]
FromString(k) == CHOOSE u \in 1 .. 5 : String(u) = k

\* x509 certificates: Raw is the DER identity, CN the subject common name
DeviceCertSet == {[Raw |-> "d1", CN |-> "dev1"], [Raw |-> "d2", CN |-> "dev2"]}
\* two onboarding certificates issued under one common name
OnboardCertSet == {[Raw |-> "o1", CN |-> "cnA"], [Raw |-> "o2", CN |-> "cnA"]}
CertSet == DeviceCertSet \cup OnboardCertSet
CommonNames == {c.CN : c \in OnboardCertSet}

\* serials a device presents ("" is the absent serial)
SerialSet == {"", "s1", "s2"}
\* serial lists an operator registers
SerialLists == {<<"s1", "s2">>, <<Wildcard>>}

\* error values a handler returns
OK == "ok"
ErrNilCert == "invalid nil certificate"
ErrRefresh == "unable to refresh certs from Redis"
ErrInvalidCert == "InvalidCertError"
ErrInvalidSerial == "InvalidSerialError"
ErrUsedSerial == "UsedSerialError"
ErrRegistered == "device already registered"
ErrStore == "store error"
ErrDrop == "couldn't drop"
ErrEmptyConfig == "empty configuration"
ErrMismatch == "mismatched UUID"
ErrUnregistered == "unregistered device UUID"
ErrRead == "error reading certificate"
ErrEmptyUUID == "empty UUID"
ErrNilMsg == "invalid nil message"
ErrBadUUID == "unable to retrieve valid device UUID"
ErrStream == "failed to write info to a stream"
PANIC == "panic: nil pointer dereference"

VARIABLES
  d,       \* the DeviceManagerRedis struct
  db,      \* the Redis database behind d.client
  now,     \* time.Now(), in seconds
  minted,  \* number of UUIDs handed out by uuid.NewV4
  issued,  \* history: UUID -> the DeviceRegister call that minted it
  ret,     \* history: the last handler call and what it returned
  rc,      \* a refreshCache of a concurrent caller, between two of its loads
  obs,     \* history: the cache maps a reader saw while rc was under way
  seen     \* history: UUID -> the hash GetConfigResponse returned last, and
           \* whether a SetConfig stored a document since

vars == <<d, db, now, minted, issued, ret, rc, obs, seen>>

\* ------------------------------------------------------------------ maps
EmptyMap == [x \in {} |-> NIL]
Put(f, k, v) == [x \in (DOMAIN f) \cup {k} |-> IF x = k THEN v ELSE f[x]]
Drop(f, k) == [x \in (DOMAIN f) \ {k} |-> f[x]]

\* --------------------------------------------------------------- codecs
\* ax.PemEncodeCert / pem.Decode: the PEM block wraps the DER bytes
PemEncodeCert(raw) == <<"CERTIFICATE", raw>>
pemDecode(p) == p[2]
\* x509.ParseCertificate: the certificate whose DER bytes these are
ParseCertificate(raw) == CHOOSE c \in CertSet : c.Raw = raw
\* msgpack.Marshal / msgpack.Unmarshal of a []string, of a config document
Marshal(list) == <<"msgpack", list>>
Unmarshal(v) == v[2]
\* getOnboardCertName: the hash key of an onboarding certificate
getOnboardCertName(cn) == cn
\* createBaseConfig: the base configuration of a device, its Id.Uuid the
\* string of the UUID
createBaseConfig(u) == [id |-> String(u), body |-> "base"]
\* the nil *config.EdgeDevConfig
NilDoc == [id |-> "nil", body |-> "nil"]
\* computeConfigElementSha and base64: one hash for one document
ConfigHash(doc) == <<"sha256", doc>>
\* the ConfigHash of no response
NoHash == << >>
\* []byte("")
EmptyBytes == << >>
\* mkStreamEntry
mkStreamEntry(body) == [version |-> "1", object |-> body]
\* the zero deviceStorage
deviceStorage == [onboard |-> NIL, serial |-> ""]

\* ---------------------------------------------------------------- Redis
\* HSET hash key val
HSet(s, hash, key, val) == [s EXCEPT ![hash] = Put(@, key, val)]
\* HDEL hash key: the number of fields removed and the database after
HDel(s, hash, key) ==
  IF key \in DOMAIN s[hash]
    THEN [n |-> 1, db |-> [s EXCEPT ![hash] = Drop(@, key)]]
    ELSE [n |-> 0, db |-> s]
\* DEL key: a hash with no field, a stream never written, is no key
Del(s, key) ==
  IF key \in HashNames
    THEN IF DOMAIN s[key] = {}
           THEN [n |-> 0, db |-> s]
           ELSE [n |-> 1, db |-> [s EXCEPT ![key] = EmptyMap]]
    ELSE IF key \in DOMAIN s.streams
           THEN [n |-> 1, db |-> [s EXCEPT !.streams = Drop(@, key)]]
           ELSE [n |-> 0, db |-> s]
\* an XADD that puts the entry before the entries of the stream
XAddFront(s, stream, entry) ==
  [s EXCEPT !.streams =
     Put(@, stream, <<entry>> \o (IF stream \in DOMAIN @ THEN @[stream] ELSE << >>))]

\* XADD stream * entry
XAdd(s, stream, entry) ==
  [s EXCEPT !.streams =
     Put(@, stream, (IF stream \in DOMAIN @ THEN @[stream] ELSE << >>) \o <<entry>>)]

\* a store command of a handler, and its effect
Apply(s, cmd) ==
  CASE cmd.op = "HSet" -> HSet(s, cmd.hash, cmd.key, cmd.val)
    [] cmd.op = "XAdd" -> XAdd(s, cmd.key, cmd.val)
    [] cmd.op = "Save" -> s

\* the database after the first n commands of cmds
RECURSIVE Run(_, _, _)
Run(s, cmds, n) ==
  IF n = 0 \/ cmds = << >> THEN s
  ELSE Run(Apply(s, Head(cmds)), Tail(cmds), n - 1)

\* commands of a handler with command number fail failing (0: none fails):
\* the commands before it took effect, the handler returns at it
Exec(s, cmds, fail) ==
  IF fail = 0 THEN [err |-> FALSE, db |-> Run(s, cmds, Len(cmds))]
  ELSE [err |-> TRUE, db |-> Run(s, cmds, fail - 1)]

cHSet(hash, key, val) == [op |-> "HSet", hash |-> hash, key |-> key, val |-> val]
cSave == [op |-> "Save", hash |-> "", key |-> "", val |-> ""]
cXAdd(stream, val) == [op |-> "XAdd", hash |-> "", key |-> stream, val |-> val]

\* writeCert(cert, hash, uuid, force = true)
writeCert(raw, hash, key) == <<cHSet(hash, key, PemEncodeCert(raw)), cSave>>

\* transactionDrop with delete number fail answering an error (0: none):
\* every key is tried, an answer other than 1 makes the result an error
RECURSIVE transactionDrop(_, _, _)
transactionDrop(s, keys, fail) ==
  IF keys = << >> THEN [err |-> FALSE, db |-> s]
  ELSE
    LET k == Head(keys)
        r == IF fail = 1 THEN [n |-> 0, db |-> s]
             ELSE IF Len(k) = 1 THEN Del(s, k[1])
             ELSE HDel(s, k[1], k[2])
        rest == transactionDrop(r.db, Tail(keys), fail - 1)
    IN  [err |-> (r.n # 1) \/ rest.err, db |-> rest.db]

\* ---------------------------------------------------------- refreshCache
\* lines 607-634: the onboarding certificates with their serial sets
LoadOnboardCerts(s) ==
  LET ocerts == s[onboardCertsHash]
      cert(u) == ParseCertificate(pemDecode(ocerts[u]))
      raws == {cert(u).Raw : u \in DOMAIN ocerts}
      key(raw) == CHOOSE u \in DOMAIN ocerts : cert(u).Raw = raw
  IN  IF \E u \in DOMAIN ocerts : u \notin DOMAIN s[onboardSerialsHash]
        THEN [err |-> TRUE, onboardCerts |-> EmptyMap]
        ELSE [err |-> FALSE,
              onboardCerts |->
                [raw \in raws |->
                   LET serials == Unmarshal(s[onboardSerialsHash][key(raw)])
                   IN  {serials[i] : i \in DOMAIN serials}]]

\* lines 645-661: the maps deviceCerts the loop can build; when two UUIDs
\* hold one certificate the one the map iteration visits last wins
LoadDeviceCerts(s) ==
  LET dcerts == s[deviceCertsHash]
      cert(k) == ParseCertificate(pemDecode(dcerts[k]))
      raws == {cert(k).Raw : k \in DOMAIN dcerts}
      ids == {FromString(k) : k \in DOMAIN dcerts}
  IN  {f \in [raws -> ids] : \A r \in raws : cert(String(f[r])).Raw = r}

\* line 660
LoadDevices(s) ==
  [u \in {FromString(k) : k \in DOMAIN s[deviceCertsHash]} |-> deviceStorage]

\* lines 672-690
MergeOnboard(devices, s) ==
  LET docerts == s[deviceOnboardCertsHash]
      ids == {FromString(k) : k \in DOMAIN docerts}
  IN  [u \in (DOMAIN devices) \cup ids |->
         LET devItem == IF u \in DOMAIN devices THEN devices[u] ELSE deviceStorage
         IN  IF u \in ids
               THEN [devItem EXCEPT
                       !.onboard = ParseCertificate(pemDecode(docerts[String(u)]))]
               ELSE devItem]

\* lines 698-710
MergeSerials(devices, s) ==
  LET dserials == s[deviceSerialsHash]
      ids == {FromString(k) : k \in DOMAIN dserials}
  IN  [u \in (DOMAIN devices) \cup ids |->
         LET devItem == IF u \in DOMAIN devices THEN devices[u] ELSE deviceStorage
         IN  IF u \in ids
               THEN [devItem EXCEPT !.serial = dserials[String(u)]]
               ELSE devItem]

\* the three cache maps of struct m
Maps(m) == <<m.onboardCerts, m.deviceCerts, m.devices>>

\* line 597
Fresh(m, t) == t - m.lastUpdate < m.cacheTimeout

\* lines 601-716: the scan of the four hashes with HGetAll number fail
\* failing (0: none): the struct after, the error, the HGetAll calls issued
Scan(m, s, t, fail) ==
  LET o == LoadOnboardCerts(s)
      m1 == [m EXCEPT !.onboardCerts = o.onboardCerts]
  IN
  IF fail = 1 \/ o.err THEN {[d |-> m, err |-> TRUE, scans |-> 1]}
  ELSE IF fail = 2 THEN {[d |-> m1, err |-> TRUE, scans |-> 2]}
  ELSE
    { LET m2 == [m1 EXCEPT !.deviceCerts = dc]
          devices == MergeSerials(MergeOnboard(LoadDevices(s), s), s)
      IN  IF fail = 3 THEN [d |-> m2, err |-> TRUE, scans |-> 3]
          ELSE IF fail = 4 THEN [d |-> m2, err |-> TRUE, scans |-> 4]
          ELSE [d |-> [m2 EXCEPT !.devices = devices, !.lastUpdate = t],
                err |-> FALSE, scans |-> 4]
      : dc \in LoadDeviceCerts(s) }

\* refreshCache that scans whatever the age of the cache
refreshCacheAlways(m, s, t, fail) == Scan(m, s, t, fail)

\* refreshCache that marks the time of the update when the scan failed too
refreshCacheStamped(m, s, t, fail) ==
  IF Fresh(m, t) THEN {[d |-> m, err |-> FALSE, scans |-> 0]}
  ELSE {[r EXCEPT !.d.lastUpdate = t] : r \in Scan(m, s, t, fail)}

\* refreshCache: the outcomes on struct m at time t
refreshCache(m, s, t, fail) ==
  IF Fresh(m, t) THEN {[d |-> m, err |-> FALSE, scans |-> 0]}
  ELSE Scan(m, s, t, fail)

\* -------------------------------------------------------------- handlers
\* the record of a call: its arguments (cert, onboard, serial, u, doc), what
\* it returned (err, u, out, doc, hash, cert, onboard, serial), the HGetAll
\* (scans) and HSet (sets) commands it issued
Ret(op) ==
  [op |-> op, err |-> OK, cert |-> NIL, onboard |-> NIL, serial |-> "",
   u |-> 0, scans |-> 0, out |-> {}, doc |-> NilDoc, hash |-> NoHash,
   sets |-> 0]

RefreshFails == 0 .. 4

\* no refreshCache of a concurrent caller is between two of its loads
Quiet == rc.pc = "idle" /\ UNCHANGED <<rc, obs>>

\* SetCacheTimeout
SetCacheTimeout(timeout) ==
  /\ Quiet
  /\ UNCHANGED seen
  /\ d' = [d EXCEPT !.cacheTimeout = timeout]
  /\ ret' = Ret("SetCacheTimeout")
  /\ UNCHANGED <<db, now, minted, issued>>

\* the wall clock advances by a second
Tick ==
  /\ Quiet
  /\ UNCHANGED seen
  /\ now < MaxTimeout + MaxTicks
  /\ now' = now + 1
  /\ ret' = Ret("Tick")
  /\ UNCHANGED <<d, db, minted, issued>>

\* DeviceList
DeviceList(fail) ==
  \E r \in refreshCache(d, db, now, fail) :
    /\ Quiet
    /\ UNCHANGED seen
    /\ d' = r.d
    /\ ret' = [Ret("DeviceList") EXCEPT
                 !.err = IF r.err THEN ErrRefresh ELSE OK,
                 !.scans = r.scans,
                 !.out = IF r.err THEN {} ELSE DOMAIN r.d.devices]
    /\ UNCHANGED <<db, now, minted, issued>>

\* checkValidOnboardSerial
checkValidOnboardSerial(m, cert, serial) ==
  IF cert.Raw \in DOMAIN m.onboardCerts
    THEN IF serial \in m.onboardCerts[cert.Raw] THEN OK
         ELSE IF Wildcard \in m.onboardCerts[cert.Raw] THEN OK
         ELSE ErrInvalidSerial
    ELSE ErrInvalidCert

\* getOnboardSerialDevice: what the scan of m.devices can end with, in any
\* iteration order: the UUID of a device that matches, no UUID (0) when none
\* does, a panic when it dereferences the nil onboard certificate of a device
getOnboardSerialDevice(m, cert, serial) ==
  LET matches == {u \in DOMAIN m.devices :
                    /\ m.devices[u].onboard # NIL
                    /\ m.devices[u].onboard.Raw = cert.Raw
                    /\ serial = m.devices[u].serial}
      nils == {u \in DOMAIN m.devices : m.devices[u].onboard = NIL}
  IN  {[panic |-> FALSE, u |-> u] : u \in matches}
        \cup (IF nils # {} THEN {[panic |-> TRUE, u |-> 0]} ELSE {})
        \cup (IF matches = {} /\ nils = {} THEN {[panic |-> FALSE, u |-> 0]} ELSE {})

\* OnboardCheck
OnboardCheck(cert, serial, fail) ==
  /\ Quiet
  /\ UNCHANGED seen
  /\ UNCHANGED <<db, now, minted, issued>>
  /\ IF cert = NIL
       THEN /\ d' = d
            /\ ret' = [Ret("OnboardCheck") EXCEPT !.err = ErrNilCert, !.serial = serial]
       ELSE \E r \in refreshCache(d, db, now, fail) :
              /\ d' = r.d
              /\ \E found \in getOnboardSerialDevice(r.d, cert, serial) :
                   ret' = [Ret("OnboardCheck") EXCEPT
                             !.cert = cert, !.serial = serial, !.scans = r.scans,
                             !.err =
                               IF r.err THEN ErrRefresh
                               ELSE IF checkValidOnboardSerial(r.d, cert, serial) # OK
                                 THEN checkValidOnboardSerial(r.d, cert, serial)
                               ELSE IF found.panic THEN PANIC
                               ELSE IF found.u # 0 THEN ErrUsedSerial
                               ELSE OK]

\* OnboardRegister
OnboardRegister(cert, serial, fail) ==
  /\ Quiet
  /\ UNCHANGED seen
  /\ UNCHANGED <<now, minted, issued>>
  /\ IF cert = NIL
       THEN /\ UNCHANGED <<d, db>>
            /\ ret' = [Ret("OnboardRegister") EXCEPT !.err = ErrNilCert]
       ELSE
         LET cn == getOnboardCertName(cert.CN)
             cmds == writeCert(cert.Raw, onboardCertsHash, cn)
                       \o <<cHSet(onboardSerialsHash, cn, Marshal(serial)), cSave>>
             w == Exec(db, cmds, fail)
         IN  /\ fail \in 0 .. Len(cmds)
             /\ db' = w.db
             /\ d' = IF w.err THEN d
                     ELSE [d EXCEPT !.onboardCerts =
                             Put(@, cert.Raw, {serial[i] : i \in DOMAIN serial})]
             /\ ret' = [Ret("OnboardRegister") EXCEPT
                          !.cert = cert, !.err = IF w.err THEN ErrStore ELSE OK]

\* OnboardRemove: dropFail is the failing delete, fail the failing HGetAll
OnboardRemove(cn, dropFail, fail) ==
  LET t == transactionDrop(db, <<<<onboardSerialsHash, cn>>,
                                 <<onboardCertsHash, cn>>>>, dropFail)
  IN  /\ Quiet
      /\ UNCHANGED seen
      /\ UNCHANGED <<now, minted, issued>>
      /\ db' = t.db
      /\ IF t.err
           THEN /\ d' = d
                /\ ret' = [Ret("OnboardRemove") EXCEPT !.err = ErrDrop]
           ELSE \E r \in refreshCache(d, t.db, now, fail) :
                  /\ d' = r.d
                  /\ ret' = [Ret("OnboardRemove") EXCEPT
                               !.err = IF r.err THEN ErrRefresh ELSE OK,
                               !.scans = r.scans]

\* DeviceCheckCert on struct m: the struct after, the error, the UUID found
CheckCert(m, s, t, cert, fail) ==
  IF cert = NIL THEN {[d |-> m, err |-> ErrNilCert, u |-> 0, scans |-> 0]}
  ELSE { [d |-> r.d,
          err |-> IF r.err THEN ErrRefresh ELSE OK,
          u |-> IF ~r.err /\ cert.Raw \in DOMAIN r.d.deviceCerts
                  THEN r.d.deviceCerts[cert.Raw] ELSE 0,
          scans |-> r.scans] : r \in refreshCache(m, s, t, fail) }

\* DeviceCheckCert
DeviceCheckCert(cert, fail) ==
  \E c \in CheckCert(d, db, now, cert, fail) :
    /\ Quiet
    /\ UNCHANGED seen
    /\ d' = c.d
    /\ ret' = [Ret("DeviceCheckCert") EXCEPT
                 !.cert = cert, !.err = c.err, !.u = c.u, !.scans = c.scans]
    /\ UNCHANGED <<db, now, minted, issued>>

\* a registration that seeds the streams and the config before it saves the
\* certificates and the serial
RegisterCmdsStreamsFirst(cert, onboard, serial, unew) ==
  <<cXAdd(deviceInfoSteram \o String(unew), mkStreamEntry(EmptyBytes)),
    cXAdd(deviceMetricsStream \o String(unew), mkStreamEntry(EmptyBytes)),
    cXAdd(deviceLogsStream \o String(unew), mkStreamEntry(EmptyBytes))>>
    \o <<cHSet(deviceConfigsHash, String(unew), Marshal(createBaseConfig(unew))), cSave>>
    \o (IF serial # ""
          THEN <<cHSet(deviceSerialsHash, String(unew), serial), cSave>>
          ELSE << >>)
    \o (IF onboard # NIL
          THEN writeCert(onboard.Raw, deviceOnboardCertsHash, String(unew))
          ELSE << >>)
    \o writeCert(cert.Raw, deviceCertsHash, String(unew))

\* lines 341-381: the store commands of a registration, in order
RegisterCmds(cert, onboard, serial, unew) ==
  writeCert(cert.Raw, deviceCertsHash, String(unew))
    \o (IF onboard # NIL
          THEN writeCert(onboard.Raw, deviceOnboardCertsHash, String(unew))
          ELSE << >>)
    \o (IF serial # ""
          THEN <<cHSet(deviceSerialsHash, String(unew), serial), cSave>>
          ELSE << >>)
    \o <<cHSet(deviceConfigsHash, String(unew), Marshal(createBaseConfig(unew))), cSave>>
    \o <<cXAdd(deviceInfoSteram \o String(unew), mkStreamEntry(EmptyBytes)),
         cXAdd(deviceMetricsStream \o String(unew), mkStreamEntry(EmptyBytes)),
         cXAdd(deviceLogsStream \o String(unew), mkStreamEntry(EmptyBytes))>>

\* DeviceRegister: f1 and f2 are the failing HGetAll of its two refreshes,
\* wf its failing store command
DeviceRegister(cert, onboard, serial, f1, f2, wf) ==
  LET R == [Ret("DeviceRegister") EXCEPT
              !.cert = cert, !.onboard = onboard, !.serial = serial]
  IN
  /\ Quiet
  /\ UNCHANGED seen
  /\ \E r \in refreshCache(d, db, now, f1) :
    IF r.err
      THEN /\ d' = r.d
           /\ ret' = [R EXCEPT !.err = ErrRefresh, !.scans = r.scans]
           /\ UNCHANGED <<db, now, minted, issued>>
      ELSE
        \E c \in CheckCert(r.d, db, now, cert, f2) :
          IF c.err # OK \/ c.u # 0
            THEN /\ d' = c.d
                 /\ ret' = [R EXCEPT
                              !.err = IF c.err # OK THEN c.err ELSE ErrRegistered,
                              !.scans = r.scans + c.scans]
                 /\ UNCHANGED <<db, now, minted, issued>>
            ELSE
              LET unew == minted + 1
                  cmds == RegisterCmds(cert, onboard, serial, unew)
                  w == Exec(db, cmds, wf)
              IN  /\ minted < MaxUUID
                  /\ wf \in 0 .. Len(cmds)
                  /\ minted' = unew
                  /\ db' = w.db
                  /\ issued' = Put(issued, unew,
                                   [cert |-> cert, onboard |-> onboard,
                                    serial |-> serial, ok |-> ~w.err])
                  /\ d' = IF w.err THEN c.d
                          ELSE [c.d EXCEPT
                                  !.deviceCerts = Put(@, cert.Raw, unew),
                                  !.devices = Put(@, unew, [onboard |-> onboard,
                                                            serial |-> serial])]
                  /\ ret' = [R EXCEPT
                               !.err = IF w.err THEN ErrStore ELSE OK,
                               !.u = IF w.err THEN 0 ELSE unew,
                               !.scans = r.scans + c.scans]
                  /\ now' = now

\* keys that name the whole hashes where DeviceRemove names one field of each
RemoveKeysWhole(k) ==
  <<<<deviceCertsHash>>, <<deviceConfigsHash>>,
    <<deviceOnboardCertsHash>>, <<deviceSerialsHash>>,
    <<deviceInfoSteram \o k>>, <<deviceLogsStream \o k>>,
    <<deviceMetricsStream \o k>>>>

\* lines 231-238: the keys DeviceRemove drops
RemoveKeys(k) ==
  <<<<deviceCertsHash, k>>, <<deviceConfigsHash, k>>,
    <<deviceOnboardCertsHash, k>>, <<deviceSerialsHash, k>>,
    <<deviceInfoSteram \o k>>, <<deviceLogsStream \o k>>,
    <<deviceMetricsStream \o k>>>>

\* DeviceRemove
DeviceRemove(u, dropFail, fail) ==
  LET t == transactionDrop(db, RemoveKeys(String(u)), dropFail)
  IN  /\ Quiet
      /\ UNCHANGED seen
      /\ UNCHANGED <<now, minted, issued>>
      /\ db' = t.db
      /\ IF t.err
           THEN /\ d' = d
                /\ ret' = [Ret("DeviceRemove") EXCEPT !.err = ErrDrop, !.u = u]
           ELSE \E r \in refreshCache(d, t.db, now, fail) :
                  /\ d' = r.d
                  /\ ret' = [Ret("DeviceRemove") EXCEPT
                               !.err = IF r.err THEN ErrRefresh ELSE OK,
                               !.u = u, !.scans = r.scans]

\* at most one store command fails in a call of DeviceRegister
FailPlans(RF, WF) ==
  {<<f1, 0, 0>> : f1 \in RF} \cup {<<0, f2, 0>> : f2 \in RF}
    \cup {<<0, 0, wf>> : wf \in WF}

\* at most one store command fails in a call of OnboardRemove, DeviceRemove
DropPlans(DF, RF) == {<<df, 0>> : df \in DF} \cup {<<0, f>> : f \in RF}

\* rc when no stepwise refreshCache is under way; obs when nothing was seen
Idle == [pc |-> "idle", now |-> 0, devices |-> EmptyMap, pre |-> << >>]
NoMaps == << >>
\* seen[u] when GetConfigResponse(u) returned nothing yet
NoSeen == [hash |-> NoHash, set |-> FALSE]

Init ==
  /\ d = [onboardCerts |-> EmptyMap, deviceCerts |-> EmptyMap,
          devices |-> EmptyMap, lastUpdate |-> 0, cacheTimeout |-> 0]
  /\ db = [h \in HashNames \cup {"streams"} |-> EmptyMap]
  /\ now = MaxTimeout
  /\ minted = 0
  /\ issued = EmptyMap
  /\ ret = Ret("Init")
  /\ rc = Idle
  /\ obs = NoMaps
  /\ seen = [u \in UUIDs |-> NoSeen]

\* one call of a handler, its arguments and its failing store command drawn
\* from the sets of I
Step(I) ==
  \/ \E t \in I.timeout : SetCacheTimeout(t)
  \/ Tick
  \/ \E fail \in I.rf : DeviceList(fail)
  \/ \E cert \in I.onboard, serial \in I.check, fail \in I.rf :
       OnboardCheck(cert, serial, fail)
  \/ \E cert \in I.onboard, serial \in I.lists, fail \in I.wf :
       OnboardRegister(cert, serial, fail)
  \/ \E cn \in CommonNames, f \in DropPlans(I.df, I.rf) :
       OnboardRemove(cn, f[1], f[2])
  \/ \E cert \in I.cert, fail \in I.rf : DeviceCheckCert(cert, fail)
  \/ \E cert \in I.cert, onboard \in I.onboard, serial \in I.serial,
        f \in FailPlans(I.rf, I.wf) :
       DeviceRegister(cert, onboard, serial, f[1], f[2], f[3])
  \/ \E u \in UUIDs, f \in DropPlans(I.df, I.rf) : DeviceRemove(u, f[1], f[2])

\* onboarding and registration with a store that answers every command
Authorize ==
  [timeout |-> {0}, rf |-> {0}, wf |-> {0}, df |-> {0},
   cert |-> DeviceCertSet, onboard |-> {NIL, ParseCertificate("o1")},
   serial |-> {"", "s1"}, check |-> SerialSet, lists |-> SerialLists]

Next == Step(Authorize)

Spec == Init /\ [][Next]_vars

\* one device and one onboarding certificate behind a cache with a TTL and a
\* store whose reads can fail
Caching ==
  [timeout |-> 0 .. MaxTimeout, rf |-> RefreshFails, wf |-> {0}, df |-> {0},
   cert |-> {ParseCertificate("d1")}, onboard |-> {ParseCertificate("o1")},
   serial |-> {"s1"}, check |-> {"s1"}, lists |-> {<<"s1", "s2">>}]

NextCache == Step(Caching)

SpecCache == Init /\ [][NextCache]_vars

\* one device certificate and a store whose writes and deletes can fail: a
\* registration at its second, fourth or sixth write, a drop at its second
\* or fifth key
Failing ==
  [timeout |-> 0 .. MaxTimeout, rf |-> {0}, wf |-> {0, 3, 7, 10}, df |-> {0, 2, 5},
   cert |-> {ParseCertificate("d1")}, onboard |-> {ParseCertificate("o1")},
   serial |-> {"s1"}, check |-> {"s1"}, lists |-> {<<"s1", "s2">>}]

NextFail == Step(Failing)

SpecFail == Init /\ [][NextFail]_vars

\* registrations of one device certificate, with or without an onboarding
\* certificate and a serial, that fail at any of their store commands (eleven
\* at most), removals and listings behind a cache that every call refreshes
NextRegister ==
  \/ \E onboard \in {NIL, ParseCertificate("o1")}, serial \in {"", "s1"},
        wf \in 0 .. 11 :
       DeviceRegister(ParseCertificate("d1"), onboard, serial, 0, 0, wf)
  \/ \E u \in UUIDs : DeviceRemove(u, 0, 0)
  \/ DeviceList(0)

SpecRegister == Init /\ [][NextRegister]_vars

\* ------------------------------------------- refreshCache, load by load
\* lines 596-604: a caller enters refreshCache and finds the cache too old
RefreshStart ==
  /\ UNCHANGED seen
  /\ rc.pc = "idle"
  /\ ~Fresh(d, now)
  /\ rc' = [pc |-> "onboardCerts", now |-> now, devices |-> EmptyMap, pre |-> Maps(d)]
  /\ obs' = NoMaps
  /\ UNCHANGED <<d, db, now, minted, issued, ret>>

\* lines 606-636
RefreshOnboardCerts ==
  /\ UNCHANGED seen
  /\ rc.pc = "onboardCerts"
  /\ LET o == LoadOnboardCerts(db)
     IN  IF o.err
           THEN /\ rc' = Idle
                /\ obs' = NoMaps
                /\ d' = d
                /\ ret' = [Ret("DeviceList") EXCEPT !.err = ErrRefresh, !.scans = 1]
           ELSE /\ rc' = [rc EXCEPT !.pc = "deviceCerts"]
                /\ d' = [d EXCEPT !.onboardCerts = o.onboardCerts]
                /\ UNCHANGED <<obs, ret>>
  /\ UNCHANGED <<db, now, minted, issued>>

\* lines 638-663
RefreshDeviceCerts ==
  /\ UNCHANGED seen
  /\ rc.pc = "deviceCerts"
  /\ \E dc \in LoadDeviceCerts(db) : d' = [d EXCEPT !.deviceCerts = dc]
  /\ rc' = [rc EXCEPT !.pc = "deviceOnboardCerts", !.devices = LoadDevices(db)]
  /\ UNCHANGED <<db, now, minted, issued, ret, obs>>

\* lines 665-690
RefreshDeviceOnboardCerts ==
  /\ UNCHANGED seen
  /\ rc.pc = "deviceOnboardCerts"
  /\ rc' = [rc EXCEPT !.pc = "deviceSerials", !.devices = MergeOnboard(@, db)]
  /\ UNCHANGED <<d, db, now, minted, issued, ret, obs>>

\* lines 692-715
RefreshDeviceSerials ==
  /\ UNCHANGED seen
  /\ rc.pc = "deviceSerials"
  /\ d' = [d EXCEPT !.devices = MergeSerials(rc.devices, db), !.lastUpdate = rc.now]
  /\ rc' = [rc EXCEPT !.pc = "done"]
  /\ UNCHANGED <<db, now, minted, issued, ret, obs>>

\* line 716, and DeviceList, the caller, lists the devices
RefreshReturn ==
  /\ UNCHANGED seen
  /\ rc.pc = "done"
  /\ rc' = Idle
  /\ obs' = NoMaps
  /\ ret' = [Ret("DeviceList") EXCEPT !.scans = 4, !.out = DOMAIN d.devices]
  /\ UNCHANGED <<d, db, now, minted, issued>>

\* a concurrent reader (lines 222, 309, 554, 739 and 755) reads the maps
Observe ==
  /\ UNCHANGED seen
  /\ rc.pc \notin {"idle", "done"}
  /\ obs = NoMaps
  /\ obs' = Maps(d)
  /\ UNCHANGED <<d, db, now, minted, issued, ret, rc>>

\* handlers that run to their end between two refreshes, and one caller whose
\* refreshCache is interleaved with a reader
Interleaved ==
  [timeout |-> {MaxTimeout}, rf |-> {0}, wf |-> {0}, df |-> {0},
   cert |-> {ParseCertificate("d1")}, onboard |-> {ParseCertificate("o1")},
   serial |-> {"s1"}, check |-> {"s1"}, lists |-> {<<"s1", "s2">>}]

NextConc ==
  \/ Step(Interleaved)
  \/ RefreshStart
  \/ RefreshOnboardCerts
  \/ RefreshDeviceCerts
  \/ RefreshDeviceOnboardCerts
  \/ RefreshDeviceSerials
  \/ RefreshReturn
  \/ Observe

SpecConc == Init /\ [][NextConc]_vars

\* ---------------------------------------------------------- config store
\* configuration documents a caller hands to SetConfig: nil, without Id, with
\* the Id of a device
ConfigSet ==
  {NilDoc} \cup {[id |-> i, body |-> "x"] : i \in {""} \cup {String(u) : u \in UUIDs}}

\* a test that only asks for an Id
MismatchedOnlyMissing(u, m) == m.id = ""

\* line 544: the document has no Id or the Id of another UUID
Mismatched(u, m) == m.id = "" \/ m.id # String(u)

\* lines 559-569 and 495-504: the document saved under the UUID
SaveConfig(u, m) == <<cHSet(deviceConfigsHash, String(u), Marshal(m)), cSave>>

\* GetConfig on database s: hf = 1 when the HGet answers an error, wf the
\* failing store command of the write; any error of the HGet is taken for a
\* missing document
getConfig(s, u, hf, wf) ==
  IF hf = 1 \/ String(u) \notin DOMAIN s[deviceConfigsHash]
    THEN LET w == Exec(s, SaveConfig(u, createBaseConfig(u)), wf)
         IN  [db |-> w.db, sets |-> 1,
              err |-> IF w.err THEN ErrStore ELSE OK,
              doc |-> IF w.err THEN NilDoc ELSE createBaseConfig(u)]
    ELSE [db |-> s, sets |-> 0, err |-> OK,
          doc |-> Unmarshal(s[deviceConfigsHash][String(u)])]

\* GetConfig
GetConfig(u, hf, wf) ==
  LET g == getConfig(db, u, hf, wf)
  IN  /\ Quiet
      /\ UNCHANGED seen
      /\ db' = g.db
      /\ ret' = [Ret("GetConfig") EXCEPT
                   !.u = u, !.err = g.err, !.doc = g.doc, !.sets = g.sets]
      /\ UNCHANGED <<d, now, minted, issued>>

\* GetConfigResponse
GetConfigResponse(u, hf, wf) ==
  LET g == getConfig(db, u, hf, wf)
      h == IF g.err = OK THEN ConfigHash(g.doc) ELSE NoHash
  IN  /\ Quiet
      /\ db' = g.db
      /\ ret' = [Ret("GetConfigResponse") EXCEPT
                   !.u = u, !.err = g.err, !.doc = g.doc, !.sets = g.sets,
                   !.hash = h]
      /\ seen' = IF g.err = OK THEN [seen EXCEPT ![u] = [hash |-> h, set |-> FALSE]]
                 ELSE seen
      /\ UNCHANGED <<d, now, minted, issued>>

\* SetConfig: fail is the failing HGetAll of its refresh, wf the failing store
\* command of its write
SetConfig(u, m, fail, wf) ==
  LET R == [Ret("SetConfig") EXCEPT !.u = u, !.doc = m]
  IN
  /\ Quiet
  /\ UNCHANGED <<now, minted, issued>>
  /\ IF m = NilDoc
       THEN /\ ret' = [R EXCEPT !.err = ErrEmptyConfig]
            /\ UNCHANGED <<d, db, seen>>
     ELSE IF Mismatched(u, m)
       THEN /\ ret' = [R EXCEPT !.err = ErrMismatch]
            /\ UNCHANGED <<d, db, seen>>
     ELSE
       \E r \in refreshCache(d, db, now, fail) :
         /\ d' = r.d
         /\ IF r.err
              THEN /\ ret' = [R EXCEPT !.err = ErrRefresh, !.scans = r.scans]
                   /\ UNCHANGED <<db, seen>>
            ELSE IF u \notin DOMAIN r.d.devices
              THEN /\ ret' = [R EXCEPT !.err = ErrUnregistered, !.scans = r.scans]
                   /\ UNCHANGED <<db, seen>>
            ELSE
              LET w == Exec(db, SaveConfig(u, m), wf)
              IN  /\ db' = w.db
                  /\ seen' = IF wf = 1 THEN seen ELSE [seen EXCEPT ![u].set = TRUE]
                  /\ ret' = [R EXCEPT
                               !.err = IF w.err THEN ErrStore ELSE OK,
                               !.scans = r.scans, !.sets = 1]

\* the failing store command of a call that reads and then writes: none, one
\* of the HGetAll of RF, the HSet or the Save
SetPlans(RF) == {<<f, 0>> : f \in RF} \cup {<<0, 1>>, <<0, 2>>}

\* the failing store command of GetConfig: none, the HGet, the HSet, the Save
GetPlans == {<<0, 0>>, <<1, 0>>, <<0, 1>>, <<0, 2>>}

\* the failing command of plan f is one that GetConfig(u) gets to: it writes
\* when the HGet fails or finds nothing
Reached(u, f) == f[2] # 0 => String(u) \notin DOMAIN db[deviceConfigsHash]

\* one device certificate and the configurations behind a cache that every
\* call refreshes; a store whose commands can fail in the calls of the config
\* store, in a command that the call gets to
NextStore ==
  \/ DeviceRegister(ParseCertificate("d1"), ParseCertificate("o1"), "s1", 0, 0, 0)
  \/ \E u \in UUIDs : DeviceRemove(u, 0, 0)
  \/ \E u \in UUIDs, f \in GetPlans :
       /\ Reached(u, f)
       /\ GetConfig(u, f[1], f[2])
  \/ \E u \in UUIDs, m \in ConfigSet, f \in SetPlans({0, 1}) :
       /\ (m = NilDoc \/ m.id # String(u)) => f = <<0, 0>>
       /\ SetConfig(u, m, f[1], f[2])

SpecStore == Init /\ [][NextStore]_vars

\* the same calls and the config responses with their hashes
NextConfig ==
  \/ NextStore
  \/ \E u \in UUIDs, f \in GetPlans :
       /\ Reached(u, f)
       /\ GetConfigResponse(u, f[1], f[2])

SpecConfig == Init /\ [][NextConfig]_vars

\* ------------------------------------------------------- device registry
\* readCert: hf = 1 when the HGet answers an error; a missing field is an
\* error of the HGet too
readCert(s, hash, key, hf) ==
  IF hf = 1 \/ key \notin DOMAIN s[hash]
    THEN [err |-> ErrRead, cert |-> NIL]
    ELSE [err |-> OK, cert |-> ParseCertificate(pemDecode(s[hash][key]))]

\* DeviceGet: u = 0 is the nil *uuid.UUID, fail the HGet that answers an error
DeviceGet(u, fail) ==
  LET R == [Ret("DeviceGet") EXCEPT !.u = u]
      c == readCert(db, deviceCertsHash, String(u), IF fail = 1 THEN 1 ELSE 0)
      o == readCert(db, deviceOnboardCertsHash, String(u), IF fail = 2 THEN 1 ELSE 0)
      serial == IF fail = 3 \/ String(u) \notin DOMAIN db[deviceSerialsHash]
                  THEN "" ELSE db[deviceSerialsHash][String(u)]
  IN  /\ Quiet
      /\ UNCHANGED seen
      /\ UNCHANGED <<d, db, now, minted, issued>>
      /\ ret' = IF u = 0 THEN [R EXCEPT !.err = ErrEmptyUUID]
                ELSE IF c.err # OK THEN [R EXCEPT !.err = c.err]
                ELSE IF o.err # OK THEN [R EXCEPT !.err = o.err]
                ELSE [R EXCEPT !.cert = c.cert, !.onboard = o.cert, !.serial = serial]

\* the keys of the streams of the devices of set S, by ascending UUID
RECURSIVE ClearStreams(_)
ClearStreams(S) ==
  IF S = {} THEN << >>
  ELSE LET u == CHOOSE x \in S : \A y \in S : x <= y
       IN  <<<<deviceMetricsStream \o String(u)>>, <<deviceLogsStream \o String(u)>>,
             <<deviceInfoSteram \o String(u)>>>> \o ClearStreams(S \ {u})

\* DeviceClear: dropFail is the failing delete
DeviceClear(dropFail) ==
  LET streams == <<<<deviceConfigsHash>>, <<deviceSerialsHash>>,
                   <<deviceCertsHash>>, <<deviceOnboardCertsHash>>>>
                   \o ClearStreams(DOMAIN d.devices)
      t == transactionDrop(db, streams, dropFail)
  IN  /\ Quiet
      /\ UNCHANGED seen
      /\ UNCHANGED <<now, minted, issued>>
      /\ db' = t.db
      /\ d' = IF t.err THEN d
              ELSE [d EXCEPT !.deviceCerts = EmptyMap, !.devices = EmptyMap]
      /\ ret' = [Ret("DeviceClear") EXCEPT !.err = IF t.err THEN ErrDrop ELSE OK]

\* OnboardClear: dropFail is the failing delete
OnboardClear(dropFail) ==
  LET t == transactionDrop(db, <<<<onboardCertsHash>>, <<onboardSerialsHash>>>>,
                           dropFail)
  IN  /\ Quiet
      /\ UNCHANGED seen
      /\ UNCHANGED <<now, minted, issued>>
      /\ db' = t.db
      /\ d' = IF t.err THEN d ELSE [d EXCEPT !.onboardCerts = EmptyMap]
      /\ ret' = [Ret("OnboardClear") EXCEPT !.err = IF t.err THEN ErrDrop ELSE OK]

\* ------------------------------------------------------------- telemetry
\* the nil message, and the messages of the devices: DevID is the UUID string
\* the message carries, "?" one that uuid.FromString refuses
NilMsg == [DevID |-> "nil", body |-> "nil"]
MsgSet ==
  {NilMsg, [DevID |-> "?", body |-> "a"]}
    \cup {[DevID |-> String(u), body |-> b] : u \in UUIDs, b \in {"a", "b"}}
\* the messages with one body
MsgSetA == {m \in MsgSet : m.body # "b"}

\* jsonpb.Marshaler.Marshal
jsonMarshal(m) == <<"json", m>>

\* the messages the streams hold, the seed entries of DeviceRegister apart
Written(s) ==
  Cardinality({<<k, i>> \in (DOMAIN s.streams) \X (1 .. MaxMessages + 1) :
                 i \in DOMAIN s.streams[k] /\ s.streams[k][i].object # EmptyBytes})

\* writeProtobufToStream: fail = 1 when the XAdd answers an error
writeProtobufToStream(s, stream, msg, fail) ==
  Exec(s, <<cXAdd(stream, mkStreamEntry(jsonMarshal(msg)))>>, fail)

\* WriteInfo, WriteLogs and WriteMetrics: prefix is the stream of the kind
Write(op, prefix, m, fail) ==
  LET R == [Ret(op) EXCEPT !.doc = m]
      w == writeProtobufToStream(db, prefix \o m.DevID, m, fail)
  IN  /\ Quiet
      /\ UNCHANGED seen
      /\ UNCHANGED <<d, now, minted, issued>>
      /\ IF m = NilMsg
           THEN /\ ret' = [R EXCEPT !.err = ErrNilMsg]
                /\ db' = db
         ELSE IF m.DevID \notin {String(u) : u \in 1 .. 5}
           THEN /\ ret' = [R EXCEPT !.err = ErrBadUUID]
                /\ db' = db
         ELSE /\ Written(db) < MaxMessages
              /\ db' = w.db
              /\ ret' = [R EXCEPT !.u = FromString(m.DevID),
                                  !.err = IF w.err THEN ErrStream ELSE OK]

WriteInfo(m, fail) == Write("WriteInfo", deviceInfoSteram, m, fail)
WriteLogs(m, fail) == Write("WriteLogs", deviceLogsStream, m, fail)
WriteMetrics(m, fail) == Write("WriteMetrics", deviceMetricsStream, m, fail)

\* one device certificate, its registration and removal, and the telemetry of
\* registered and unregistered UUIDs: logs of two bodies over a store whose
\* XAdd can fail, info and metrics of one body
NextTelemetry ==
  \/ DeviceRegister(ParseCertificate("d1"), ParseCertificate("o1"), "s1", 0, 0, 0)
  \/ \E u \in UUIDs : DeviceRemove(u, 0, 0)
  \/ \E m \in MsgSetA : WriteInfo(m, 0)
  \/ \E m \in MsgSet, fail \in {0, 1} : WriteLogs(m, fail)
  \/ \E m \in MsgSetA : WriteMetrics(m, 0)

SpecTelemetry == Init /\ [][NextTelemetry]_vars

\* two device certificates and two onboarding certificates of one common name
\* behind a cache that every call refreshes, lookups and the two Clear calls;
\* the store answers every command but, at times, the HGet of a serial
NextFleet ==
  \/ \E cert \in OnboardCertSet : OnboardRegister(cert, <<"s1", "s2">>, 0)
  \/ OnboardClear(0)
  \/ \E cert \in DeviceCertSet, onboard \in {NIL, ParseCertificate("o1")},
        serial \in {"", "s1"} :
       DeviceRegister(cert, onboard, serial, 0, 0, 0)
  \/ \E u \in UUIDs : DeviceRemove(u, 0, 0)
  \/ DeviceClear(0)
  \/ \E u \in 0 .. MaxUUID, fail \in {0, 3} : DeviceGet(u, fail)
  \/ DeviceList(0)

SpecFleet == Init /\ [][NextFleet]_vars

\* registrations of one device certificate that fail at any of their store
\* commands, removals, listings and DeviceClear, behind a cache that every
\* refreshing call reloads; the store answers every delete
NextClear ==
  \/ \E onboard \in {NIL, ParseCertificate("o1")}, serial \in {"", "s1"},
        wf \in 0 .. 11 :
       DeviceRegister(ParseCertificate("d1"), onboard, serial, 0, 0, wf)
  \/ \E u \in UUIDs : DeviceRemove(u, 0, 0)
  \/ DeviceClear(0)
  \/ DeviceList(0)

SpecClear == Init /\ [][NextClear]_vars

\* ---------------------------------------------------------------- claims
\* a device DeviceRegister returned success for and whose certificate is
\* still in the store
Registered(u) ==
  /\ u \in DOMAIN issued
  /\ issued[u].ok
  /\ String(u) \in DOMAIN db[deviceCertsHash]

\* the (onboarding certificate, serial) pair the store holds for a device
HeldPair(u) ==
  IF /\ String(u) \in DOMAIN db[deviceOnboardCertsHash]
     /\ String(u) \in DOMAIN db[deviceSerialsHash]
    THEN <<pemDecode(db[deviceOnboardCertsHash][String(u)]),
           db[deviceSerialsHash][String(u)]>>
    ELSE <<"", "">>

\* C1: no two registered devices share one (onboarding certificate identity,
\* concrete serial) pair: DeviceRegister refuses the second with the
\* serial-already-used error.
C1_SerialReuse ==
  \A u1, u2 \in UUIDs :
    (u1 # u2 /\ Registered(u1) /\ Registered(u2) /\ HeldPair(u1)[2] \notin {"", Wildcard})
      => HeldPair(u1) # HeldPair(u2)

\* the outcome claim C6 gives OnboardCheck(cert, serial) on cache m
C6_Outcome(m, cert, serial) ==
  IF cert.Raw \notin DOMAIN m.onboardCerts THEN ErrInvalidCert
  ELSE IF serial \notin m.onboardCerts[cert.Raw] /\ Wildcard \notin m.onboardCerts[cert.Raw]
    THEN ErrInvalidSerial
  ELSE IF \E u \in DOMAIN m.devices :
            /\ m.devices[u].onboard # NIL
            /\ m.devices[u].onboard.Raw = cert.Raw
            /\ m.devices[u].serial = serial
    THEN ErrUsedSerial
  ELSE OK

\* C6: OnboardCheck with a non-nil certificate and a successful refresh
\* returns exactly one of: unknown certificate, invalid serial, serial already
\* used, success, decided in that order on the refreshed cache.
C6_OnboardCheckOutcome ==
  (ret.op = "OnboardCheck" /\ ret.cert # NIL /\ ret.err # ErrRefresh)
    => ret.err = C6_Outcome(d, ret.cert, ret.serial)

\* the store holds onboarding certificate cert with serial among its serials
OnboardHas(cert, serial) ==
  LET cn == getOnboardCertName(cert.CN)
  IN  /\ cn \in DOMAIN db[onboardCertsHash]
      /\ pemDecode(db[onboardCertsHash][cn]) = cert.Raw
      /\ cn \in DOMAIN db[onboardSerialsHash]
      /\ \E i \in DOMAIN Unmarshal(db[onboardSerialsHash][cn]) :
           Unmarshal(db[onboardSerialsHash][cn])[i] = serial

\* C7: with C registered for serials and a device registered with (C, S),
\* OnboardCheck(C, S) fails with the serial-already-used error for as long as
\* the device is registered, and OnboardCheck(C, S') succeeds for every other
\* serial S' of C that no device uses.
C7_RoundTrip ==
  (/\ ret.op = "OnboardCheck"
   /\ ret.cert # NIL
   /\ ret.err # ErrRefresh
   /\ OnboardHas(ret.cert, ret.serial))
    => ret.err =
         (IF \E u \in UUIDs :
               /\ Registered(u)
               /\ issued[u].onboard = ret.cert
               /\ issued[u].serial = ret.serial
            THEN ErrUsedSerial ELSE OK)

\* r records a call that starts with one refreshCache and writes nothing
ReadCall(r) ==
  \/ r.op = "DeviceList"
  \/ r.op \in {"DeviceCheckCert", "OnboardCheck"} /\ r.cert # NIL

\* r records a call of a read-facing operation that reaches refreshCache
ReadFacingCall(r) == ReadCall(r) \/ r.op = "DeviceRegister"

\* C2: a refreshCache that fails at any of its four load steps leaves
\* onboardCerts, deviceCerts and devices as they were before the call.
C2_FailedRefreshKeepsMaps ==
  [][(ReadCall(ret') /\ ret'.err = ErrRefresh) => Maps(d') = Maps(d)]_vars

\* C8: after a DeviceRemove(uuid) that returned success, the next DeviceList
\* does not contain uuid and the next DeviceCheckCert of its certificate finds
\* no device, whatever cacheTimeout is.
C8_RemoveThenList ==
  [][(ret.op = "DeviceRemove" /\ ret.err = OK /\ ret.u \in DOMAIN issued /\ ret'.err = OK)
       => /\ ret'.op = "DeviceList" => ret.u \notin ret'.out
          /\ (ret'.op = "DeviceCheckCert" /\ ret'.cert = issued[ret.u].cert)
               => ret'.u = 0]_vars

\* C9: a refreshCache called less than cacheTimeout seconds after a successful
\* refresh reads nothing from the store and leaves the struct unchanged; with
\* cacheTimeout = 0 every call scans, all four hashes when none fails.
C9_IdempotentRefresh ==
  [][ReadCall(ret')
       => /\ Fresh(d, now) => (ret'.scans = 0 /\ d' = d)
          /\ d.cacheTimeout = 0 => ret'.scans >= 1
          /\ (d.cacheTimeout = 0 /\ ret'.err # ErrRefresh) => ret'.scans = 4]_vars

\* a call served from a cache that no longer is what the store holds
C9_Witness ==
  /\ ret.op = "DeviceList"
  /\ ret.err = OK
  /\ ret.scans = 0
  /\ d.cacheTimeout > 0
  /\ d.lastUpdate = now
  /\ DOMAIN d.devices # DOMAIN LoadDevices(db)

\* C10: a refreshCache that fails leaves lastUpdate as it was, and the
\* read-facing operation called next scans the store again.
C10_FailedRefreshRetries ==
  [][/\ (ReadCall(ret') /\ ret'.err = ErrRefresh) => d'.lastUpdate = d.lastUpdate
     /\ (ret.err = ErrRefresh /\ ReadFacingCall(ret')) => ret'.scans >= 1]_vars

\* a refresh failed after the TTL of an earlier successful one ran out
C10_Witness ==
  /\ ReadCall(ret)
  /\ ret.err = ErrRefresh
  /\ d.cacheTimeout > 0
  /\ d.lastUpdate # 0
  /\ ~Fresh(d, now)

\* a device whose records are all in the store: certificate, configuration
\* and three streams, and the onboarding certificate and serial it was
\* registered with
FullyPresent(u) ==
  LET k == String(u)
  IN  /\ k \in DOMAIN db[deviceCertsHash]
      /\ k \in DOMAIN db[deviceConfigsHash]
      /\ {deviceInfoSteram \o k, deviceLogsStream \o k, deviceMetricsStream \o k}
           \subseteq DOMAIN db.streams
      /\ u \in DOMAIN issued =>
           /\ issued[u].onboard # NIL => k \in DOMAIN db[deviceOnboardCertsHash]
           /\ issued[u].serial # "" => k \in DOMAIN db[deviceSerialsHash]

\* C3: a reader that reads the cache while a refreshCache is under way sees
\* the three maps of before the refresh or the three maps of after it.
C3_SnapshotIsolation ==
  (rc.pc = "done" /\ obs # NoMaps) => (obs = rc.pre \/ obs = Maps(d))

\* C4: after a successful refresh, every device DeviceList returns and every
\* device DeviceCheckCert finds has all its records in the store.
C4_NoHalfWrittenDevice ==
  (ret.err = OK /\ ret.scans = 4)
    => /\ ret.op = "DeviceList" => \A u \in ret.out : FullyPresent(u)
       /\ (ret.op = "DeviceCheckCert" /\ ret.u # 0) => FullyPresent(ret.u)

\* C5: the store binds at most one UUID to a device certificate.
C5_OneUUIDPerCert ==
  \A k1, k2 \in DOMAIN db[deviceCertsHash] :
    k1 # k2 => db[deviceCertsHash][k1] # db[deviceCertsHash][k2]

\* C11: every config document stored under a UUID, and every document
\* GetConfig returns for it, has that UUID as its id; SetConfig fails for a
\* document whose id is missing or is another UUID.
C11_ConfigSelfReference ==
  /\ \A k \in DOMAIN db[deviceConfigsHash] :
       Unmarshal(db[deviceConfigsHash][k]).id = k
  /\ (ret.op \in {"GetConfig", "GetConfigResponse"} /\ ret.err = OK)
       => ret.doc.id = String(ret.u)
  /\ (ret.op = "SetConfig" /\ ret.doc.id # String(ret.u)) => ret.err # OK

\* SetConfig refused the document of another device while the store holds a
\* document that a SetConfig wrote and a base document that GetConfig seeded
C11_Witness ==
  /\ ret.op = "SetConfig"
  /\ ret.err = ErrMismatch
  /\ ret.doc.id \in {String(u) : u \in UUIDs}
  /\ \E k1, k2 \in DOMAIN db[deviceConfigsHash] :
       /\ Unmarshal(db[deviceConfigsHash][k1]).body = "x"
       /\ Unmarshal(db[deviceConfigsHash][k2]).body = "base"

\* C12: GetConfigResponse(uuid) returns the hash it returned last when no
\* SetConfig(uuid, ...) stored a document since, whatever else was called in
\* between; after a SetConfig that stored a document of other content it
\* returns another hash than before.
C12_HashStability ==
  [][(ret'.op = "GetConfigResponse" /\ ret'.err = OK)
       => /\ (seen[ret'.u].hash # NoHash /\ ~seen[ret'.u].set)
               => ret'.hash = seen[ret'.u].hash
          /\ (/\ ret.op = "SetConfig"
              /\ ret.err = OK
              /\ ret.u = ret'.u
              /\ seen[ret'.u].hash # NoHash
              /\ seen[ret'.u].hash # ConfigHash(ret.doc))
               => ret'.hash # seen[ret'.u].hash]_vars

\* C13: GetConfig(uuid) with no config stored for uuid returns the base
\* document and stores it; the GetConfig(uuid) called right after returns the
\* same document and writes nothing to the store.
C13_LazySeeding ==
  [][ret'.op = "GetConfig"
       => /\ (String(ret'.u) \notin DOMAIN db[deviceConfigsHash] /\ ret'.err = OK)
               => /\ ret'.doc = createBaseConfig(ret'.u)
                  /\ String(ret'.u) \in DOMAIN db'[deviceConfigsHash]
                  /\ Unmarshal(db'[deviceConfigsHash][String(ret'.u)]) = ret'.doc
          /\ (ret.op = "GetConfig" /\ ret.err = OK /\ ret.u = ret'.u)
               => /\ ret'.err = OK
                  /\ ret'.doc = ret.doc
                  /\ ret'.sets = 0
                  /\ db' = db]_vars

\* C17: a SetConfig that returns an error leaves every stored config as it
\* was; a validation error (nil document, id missing or of another UUID)
\* comes without any store access or cache refresh; a UUID that is not in the
\* cached devices is refused without a write.
C17_SetConfigErrors ==
  [][ret'.op = "SetConfig"
       => /\ ret'.err # OK => db'[deviceConfigsHash] = db[deviceConfigsHash]
          /\ ret'.err \in {ErrEmptyConfig, ErrMismatch}
               => (db' = db /\ d' = d /\ ret'.scans = 0 /\ ret'.sets = 0)
          /\ (ret'.err \notin {ErrEmptyConfig, ErrMismatch, ErrRefresh}
                /\ ret'.u \notin DOMAIN d'.devices)
               => (ret'.err = ErrUnregistered /\ ret'.sets = 0 /\ db' = db)]_vars

\* C14: for a device that DeviceRegister returned success for and that was
\* not removed, DeviceGet succeeds and returns its device certificate,
\* whether or not it was registered with an onboarding certificate or a
\* serial; without a serial it returns the empty serial.
C14_DeviceGetBestEffort ==
  (ret.op = "DeviceGet" /\ ret.u # 0 /\ Registered(ret.u))
    => /\ ret.err = OK
       /\ ret.cert = issued[ret.u].cert
       /\ issued[ret.u].serial = "" => ret.serial = ""

\* C15: in every reachable state of the cache, also after a device was
\* registered without an onboarding certificate, OnboardCheck with a non-nil
\* certificate returns success or an error value; it never aborts.
C15_OnboardCheckNeverAborts ==
  (ret.op = "OnboardCheck" /\ ret.cert # NIL) => ret.err # PANIC

\* the records and streams of database s, those of the UUID of key k apart
Others(s, k) ==
  [h \in DOMAIN s |->
     IF h = "streams"
       THEN [x \in (DOMAIN s.streams)
                     \ {deviceInfoSteram \o k, deviceLogsStream \o k,
                        deviceMetricsStream \o k} |-> s.streams[x]]
       ELSE [x \in (DOMAIN s[h]) \ {k} |-> s[h][x]]]

\* C16: DeviceRemove(uuid) for a UUID that was never registered returns an
\* error and leaves the cache and the records and streams of every other
\* device in the store as they were.
C16_UnknownRemove ==
  [][(ret'.op = "DeviceRemove" /\ ret'.u \notin DOMAIN issued)
       => /\ ret'.err = ErrDrop
          /\ d' = d
          /\ Others(db', String(ret'.u)) = Others(db, String(ret'.u))]_vars

\* the removal of an unknown UUID was refused while a device is registered,
\* is in the cache and has telemetry in one of its streams
C16_Witness ==
  /\ ret.op = "DeviceRemove"
  /\ ret.u \notin DOMAIN issued
  /\ ret.err = ErrDrop
  /\ \E u \in DOMAIN d.devices :
       /\ u # ret.u
       /\ Registered(u)
       /\ \E x \in DOMAIN db.streams :
            x = deviceLogsStream \o String(u) /\ Len(db.streams[x]) >= 2

\* the stream WriteInfo, WriteLogs or WriteMetrics of record r writes to
StreamOf(r) ==
  (CASE r.op = "WriteInfo" -> deviceInfoSteram
     [] r.op = "WriteLogs" -> deviceLogsStream
     [] r.op = "WriteMetrics" -> deviceMetricsStream) \o r.doc.DevID

C19_CacheIsProjection ==
  (ret.op \in {"OnboardRegister", "DeviceRegister", "OnboardClear", "DeviceClear"}
     /\ ret.err = OK)
    => \E r \in Scan(d, db, now, 0) : ~r.err /\ Maps(r.d) = Maps(d)

\* the records the DeviceRegister of record r is to persist, in its order:
\* the onboarding certificate and the serial when the caller supplies them
Supplied(r) == <<TRUE, r.onboard # NIL, r.serial # "", TRUE, TRUE, TRUE, TRUE>>

\* the records of UUID u that database s holds, in the same order
Persisted(s, u, r) ==
  LET k == String(u)
  IN  <<k \in DOMAIN s[deviceCertsHash]
          /\ pemDecode(s[deviceCertsHash][k]) = r.cert.Raw,
        k \in DOMAIN s[deviceOnboardCertsHash]
          /\ pemDecode(s[deviceOnboardCertsHash][k]) = r.onboard.Raw,
        k \in DOMAIN s[deviceSerialsHash] /\ s[deviceSerialsHash][k] = r.serial,
        k \in DOMAIN s[deviceConfigsHash]
          /\ Unmarshal(s[deviceConfigsHash][k]) = createBaseConfig(u),
        (deviceInfoSteram \o k) \in DOMAIN s.streams,
        (deviceMetricsStream \o k) \in DOMAIN s.streams,
        (deviceLogsStream \o k) \in DOMAIN s.streams>>

\* C20: DeviceRegister inserts the device into deviceCerts and devices only
\* after it persisted the device certificate, the onboarding certificate, the
\* serial, the base config and the three stream seeds, in that order; a
\* DeviceRegister that returns an error inserts nothing, so the cache maps
\* are those of before the call or those its refresh loaded.
C20_WriteThroughLast ==
  [][ret'.op = "DeviceRegister"
       => /\ ret'.err = OK
               => /\ \A i \in 1 .. 7 :
                       Persisted(db', ret'.u, ret')[i] = Supplied(ret')[i]
                  /\ d'.deviceCerts = Put(d'.deviceCerts, ret'.cert.Raw, ret'.u)
                  /\ d'.devices = Put(d'.devices, ret'.u,
                                      [onboard |-> ret'.onboard, serial |-> ret'.serial])
          /\ minted' # minted
               => \A i, j \in 1 .. 7 :
                    /\ Persisted(db', minted', ret')[j] => Supplied(ret')[j]
                    /\ (i < j /\ Supplied(ret')[i] /\ Persisted(db', minted', ret')[j])
                         => Persisted(db', minted', ret')[i]
          /\ ret'.err # OK
               => \/ Maps(d') = Maps(d)
                  \/ \E r \in Scan(d, db, now, 0) : Maps(d') = Maps(r.d)]_vars

\* a DeviceRegister failed at the seed of a stream: the certificates, the
\* serial and the config of its UUID are in the store, one stream is missing
\* and the cache has no entry for the UUID
C20_Witness ==
  /\ ret.op = "DeviceRegister"
  /\ ret.err = ErrStore
  /\ minted \in UUIDs
  /\ Persisted(db, minted, ret)[4]
  /\ ~Persisted(db, minted, ret)[7]
  /\ minted \notin DOMAIN d.devices
  /\ ret.cert.Raw \notin DOMAIN d.deviceCerts
\* the device hashes of the store
DeviceHashes ==
  {deviceCertsHash, deviceOnboardCertsHash, deviceSerialsHash, deviceConfigsHash}

\* the log, info and metrics streams the store holds for device u
DeviceStreams(s, u) ==
  {deviceInfoSteram \o String(u), deviceLogsStream \o String(u),
   deviceMetricsStream \o String(u)} \cap DOMAIN s.streams

\* C21: after DeviceClear returns success none of the four device hashes
\* holds a record, no log, info or metrics stream of any device a
\* registration attempt minted remains, also of one whose registration failed
\* partway, and a DeviceList that follows returns the empty list.
C21_ClearLeavesNothing ==
  [][/\ (ret'.op = "DeviceClear" /\ ret'.err = OK)
          => /\ \A h \in DeviceHashes : DOMAIN db'[h] = {}
             /\ \A u \in UUIDs : DeviceStreams(db', u) = {}
     /\ (ret.op = "DeviceClear" /\ ret.err = OK
           /\ ret'.op = "DeviceList" /\ ret'.err = OK)
          => ret'.out = {}]_vars
\* C22: when the store answers every command, DeviceRemove of a device that
\* DeviceRegister returned success for, and that is still registered,
\* returns success, whether it was registered with or without an onboarding
\* certificate and with an empty or a non-empty serial.
C22_RemoveRegistered ==
  [][(ret'.op = "DeviceRemove" /\ Registered(ret'.u)) => ret'.err = OK]_vars
\* C23: in every store state the operations reach, also one an
\* OnboardRegister or an OnboardRemove left when it failed between its two
\* store mutations, the scan of refreshCache succeeds when the store answers
\* every command of the scan.
C23_RefreshAlwaysPossible ==
  \A r \in Scan(d, db, now, 0) : ~r.err
\* C24: GetConfig(uuid) never replaces a config document that is stored for
\* uuid: the field of DEVICE_CONFIGS it finds stored is the same after the
\* call, also when its read of the field fails with a store error, and it
\* writes, the base document, only when no document is stored.
C24_GetConfigKeepsStored ==
  [][ret'.op = "GetConfig"
       => /\ String(ret'.u) \in DOMAIN db[deviceConfigsHash]
               => /\ String(ret'.u) \in DOMAIN db'[deviceConfigsHash]
                  /\ db'[deviceConfigsHash][String(ret'.u)]
                       = db[deviceConfigsHash][String(ret'.u)]
          /\ db'[deviceConfigsHash] # db[deviceConfigsHash]
               => /\ String(ret'.u) \notin DOMAIN db[deviceConfigsHash]
                  /\ db'[deviceConfigsHash]
                       = Put(db[deviceConfigsHash], String(ret'.u),
                             Marshal(createBaseConfig(ret'.u)))]_vars
====
